---- MODULE Spec2Model ----
(***************************************************************************)
(* A model of the persistence entities of wrappai: the Notification        *)
(* entity with its compress-on-write hook and its read path, the User      *)
(* entity with its unique columns, the MediaInteraction ledger, the media  *)
(* item with its status and counters, and the foreign keys between Users,  *)
(* Studios, Devices, Playlists and Notifications.                          *)
(*                                                                         *)
(* Text is a sequence of Unicode code points, a Buffer is a sequence of    *)
(* bytes.  The zlib calls of the entity are modelled at the byte level:    *)
(* the zlib container (header 78 9C, Adler-32 trailer) around one deflate  *)
(* block of fixed-Huffman literals.  That is byte for byte what zlib emits *)
(* for an input with no repeated three-byte substring ("Hello" gives       *)
(* 78 9C F3 48 CD C9 C9 07 00 05 8C 01 F5); for an input with repeats it   *)
(* is another valid stream of the same input.                              *)
(***************************************************************************)
EXTENDS Integers, Sequences, FiniteSets, TLC

(***************************************************************************)
(* Bounds of the model.                                                    *)
(***************************************************************************)
\* longest plaintext message, in code points
MaxLen == 2
\* persisted writes (runs of the hook) on the notification
MaxSaves == 3
\* longest stored payload, in bytes, that a further update is applied to
MaxStored == 40

NULL == "null"
\* a message column that holds no Buffer (null or undefined)
NoBuffer == <<-1>>

(***************************************************************************)
(* UTF-8: Buffer.toString("utf-8") and the encoding of a string argument.  *)
(***************************************************************************)
\* U+FFFD, what the decoder puts for every ill-formed subsequence
Replacement == 65533

IsCont(b) == b >= 128 /\ b <= 191

\* number of continuation bytes the lead byte b announces, 0 for ASCII,
\* -1 for a byte that cannot start a sequence
Following(b) ==
    IF b < 128 THEN 0
    ELSE IF b >= 194 /\ b <= 223 THEN 1
    ELSE IF b >= 224 /\ b <= 239 THEN 2
    ELSE IF b >= 240 /\ b <= 244 THEN 3
    ELSE -1

\* the range the first continuation byte must lie in (no overlong forms,
\* no surrogates, nothing above U+10FFFF)
SecondOk(lead, b) ==
    IF lead = 224 THEN b >= 160 /\ b <= 191
    ELSE IF lead = 237 THEN b >= 128 /\ b <= 159
    ELSE IF lead = 240 THEN b >= 144 /\ b <= 191
    ELSE IF lead = 244 THEN b >= 128 /\ b <= 143
    ELSE IsCont(b)

LeadBits(lead, n) ==
    IF n = 1 THEN lead - 192 ELSE IF n = 2 THEN lead - 224 ELSE lead - 240

\* continuation bytes that follow the lead byte at i and are well formed:
\* the sequence at i is complete when this equals Following(buf[i])
Good(buf, i) ==
    LET lead == buf[i]
        n == Following(lead)
        Ok(k) == /\ i + k <= Len(buf)
                 /\ IF k = 1 THEN SecondOk(lead, buf[i + 1])
                             ELSE IsCont(buf[i + k])
    IN  IF n < 1 THEN 0
        ELSE IF ~Ok(1) THEN 0
        ELSE IF n = 1 \/ ~Ok(2) THEN 1
        ELSE IF n = 2 \/ ~Ok(3) THEN 2
        ELSE 3

\* what the decoder emits for the bytes that start at i: the code point of a
\* well-formed sequence, U+FFFD for a maximal ill-formed one
PointAt(buf, i) ==
    LET lead == buf[i]
        n == Following(lead)
    IN  IF n = 0 THEN lead
        ELSE IF n = -1 \/ Good(buf, i) # n THEN Replacement
        ELSE IF n = 1 THEN LeadBits(lead, 1) * 64 + (buf[i + 1] - 128)
        ELSE IF n = 2 THEN LeadBits(lead, 2) * 4096 + (buf[i + 1] - 128) * 64
                           + (buf[i + 2] - 128)
        ELSE LeadBits(lead, 3) * 262144 + (buf[i + 1] - 128) * 4096
             + (buf[i + 2] - 128) * 64 + (buf[i + 3] - 128)

\* the decoder resumes at the byte that broke a sequence, so byte i is taken
\* by an earlier sequence exactly when a lead byte at most three places back
\* has it among its well-formed continuation bytes (a byte that is not a
\* continuation byte always starts a unit)
Taken(buf, i) ==
    \E k \in 1..3 : i - k >= 1 /\ ~IsCont(buf[i - k]) /\ Good(buf, i - k) >= k

\* buffer.toString("utf-8"): one code point per unit, in order
ToStringUtf8(buf) ==
    LET positions == [i \in 1..Len(buf) |-> i]
        starts == SelectSeq(positions, LAMBDA i : ~Taken(buf, i))
    IN  [k \in 1..Len(starts) |-> PointAt(buf, starts[k])]

EncodePoint(cp) ==
    IF cp < 128 THEN <<cp>>
    ELSE IF cp < 2048 THEN <<192 + (cp \div 64), 128 + (cp % 64)>>
    ELSE IF cp < 65536
         THEN <<224 + (cp \div 4096), 128 + ((cp \div 64) % 64), 128 + (cp % 64)>>
    ELSE <<240 + (cp \div 262144), 128 + ((cp \div 4096) % 64),
           128 + ((cp \div 64) % 64), 128 + (cp % 64)>>

\* the encodings of str[lo..hi], concatenated
RECURSIVE EncodeRange(_, _, _)
EncodeRange(str, lo, hi) ==
    IF lo > hi THEN <<>>
    ELSE IF lo = hi THEN EncodePoint(str[lo])
    ELSE LET mid == (lo + hi) \div 2
         IN  EncodeRange(str, lo, mid) \o EncodeRange(str, mid + 1, hi)

\* Buffer.from(str, "utf-8"), also what zlib does to a string argument
Utf8Encode(str) == EncodeRange(str, 1, Len(str))

(***************************************************************************)
(* zlib: deflate(str) and unzip(buffer).                                   *)
(***************************************************************************)
AdlerBase == 65521

\* the sum of Weight(i) * data[i] over lo..hi, with weight 1 or the number of
\* bytes from i to the end
RECURSIVE SumRange(_, _, _, _)
SumRange(data, lo, hi, weighted) ==
    IF lo > hi THEN 0
    ELSE IF lo = hi
         THEN IF weighted THEN (Len(data) - lo + 1) * data[lo] ELSE data[lo]
    ELSE LET mid == (lo + hi) \div 2
         IN  SumRange(data, lo, mid, weighted)
             + SumRange(data, mid + 1, hi, weighted)

\* Adler-32, the four trailer bytes, most significant first.  a is 1 plus the
\* bytes, b is the sum of a after each byte: the count of bytes plus every byte
\* times the number of bytes from it to the end.
Adler32(data) ==
    LET a == (1 + SumRange(data, 1, Len(data), FALSE)) % AdlerBase
        b == (Len(data) + SumRange(data, 1, Len(data), TRUE)) % AdlerBase
    IN  <<b \div 256, b % 256, a \div 256, a % 256>>

\* the n low bits of v, most significant first (Huffman codes are packed so)
MsbBits(v, n) == [k \in 1..n |-> (v \div 2^(n - k)) % 2]

\* fixed Huffman code of a literal: 8 bits from 00110000 for 0..143,
\* 9 bits from 110010000 for 144..255
LiteralCode(lit) ==
    IF lit < 144 THEN MsbBits(48 + lit, 8) ELSE MsbBits(400 + (lit - 144), 9)

\* symbol 256
EndOfBlock == MsbBits(0, 7)

\* the codes of data[lo..hi], concatenated
RECURSIVE LiteralBits(_, _, _)
LiteralBits(data, lo, hi) ==
    IF lo > hi THEN <<>>
    ELSE IF lo = hi THEN LiteralCode(data[lo])
    ELSE LET mid == (lo + hi) \div 2
         IN  LiteralBits(data, lo, mid) \o LiteralBits(data, mid + 1, hi)

\* BFINAL = 1, BTYPE = 01, the literals, end of block
BlockBits(data) == <<1, 1, 0>> \o LiteralBits(data, 1, Len(data)) \o EndOfBlock

\* bytes are filled from their least significant bit
PackBits(bits) ==
    LET n == (Len(bits) + 7) \div 8
        Bit(j) == IF j <= Len(bits) THEN bits[j] ELSE 0
        Base(k) == 8 * (k - 1)
    IN  [k \in 1..n |->
            Bit(Base(k) + 1) + 2 * Bit(Base(k) + 2) + 4 * Bit(Base(k) + 3)
            + 8 * Bit(Base(k) + 4) + 16 * Bit(Base(k) + 5)
            + 32 * Bit(Base(k) + 6) + 64 * Bit(Base(k) + 7)
            + 128 * Bit(Base(k) + 8)]

ZlibHeader == <<120, 156>>

\* deflate(str): the string is encoded as UTF-8 and wrapped in a zlib stream
Deflate(str) ==
    LET data == Utf8Encode(str)
    IN  ZlibHeader \o PackBits(BlockBits(data)) \o Adler32(data)

\* bit p (from 0) of the deflate body, which starts at the third byte
BodyBit(buf, p) == (buf[3 + (p \div 8)] \div 2^(p % 8)) % 2

\* bits the body holds before a four-byte trailer
BodyBits(buf) == 8 * (Len(buf) - 6)

\* the value of the n bits from p, most significant first; -1 past the end
ReadMsb(buf, p, n) ==
    LET RECURSIVE Acc(_)
        Acc(k) == IF k = 0 THEN 0
                  ELSE 2 * Acc(k - 1) + BodyBit(buf, p + k - 1)
    IN  IF p + n > BodyBits(buf) THEN -1 ELSE Acc(n)

\* the symbol whose code starts at bit p: a literal 0..255, 256 for the end
\* of the block, -1 for anything else (a length code, a truncated stream)
SymbolAt(buf, p) ==
    LET v7 == ReadMsb(buf, p, 7)
        v8 == ReadMsb(buf, p, 8)
        v9 == ReadMsb(buf, p, 9)
    IN  IF v7 = 0 THEN 256
        ELSE IF v7 < 24 THEN -1
        ELSE IF v8 >= 48 /\ v8 < 192 THEN v8 - 48
        ELSE IF v9 >= 400 THEN 144 + (v9 - 400)
        ELSE -1

\* the bit after the literal at p; codes that end the decoding stay in place
AfterSymbol(buf, p) ==
    LET s == SymbolAt(buf, p)
    IN  IF s < 0 \/ s = 256 THEN p ELSE IF s < 144 THEN p + 8 ELSE p + 9

\* the bits at which the decoder reads its next n codes, from bit p on, or
\* fewer when a code ends the decoding: the first half, then the rest from
\* the bit after the last code of the first half
RECURSIVE CodeStartsFrom(_, _, _)
CodeStartsFrom(buf, p, n) ==
    IF n <= 1 THEN <<p>>
    ELSE LET first == CodeStartsFrom(buf, p, n \div 2)
             lastp == first[Len(first)]
             q == AfterSymbol(buf, lastp)
         IN  IF Len(first) < n \div 2 \/ q = lastp THEN first
             ELSE first \o CodeStartsFrom(buf, q, n - (n \div 2))

\* the first code follows the three header bits of the block; there are
\* fewer codes than bits
CodeStarts(buf) == CodeStartsFrom(buf, 3, BodyBits(buf))

\* decode the literals of the block; the result is the data and the bit
\* after the end-of-block code, or a failure
Inflate(buf) ==
    LET codes == CodeStarts(buf)
        end == codes[Len(codes)]
    IN  IF SymbolAt(buf, end) = 256
        THEN [ok |-> TRUE, next |-> end + 7,
              data |-> [k \in 1..(Len(codes) - 1) |-> SymbolAt(buf, codes[k])]]
        ELSE [ok |-> FALSE, next |-> end, data |-> <<>>]

\* the zlib header check: method 8, window at most 32K, no preset dictionary,
\* and the two bytes a multiple of 31
HeaderOk(buf) ==
    /\ Len(buf) >= 2
    /\ buf[1] % 16 = 8
    /\ buf[1] \div 16 <= 7
    /\ (buf[2] \div 32) % 2 = 0
    /\ (buf[1] * 256 + buf[2]) % 31 = 0

\* unzip(buffer): the data of a well-formed stream, or a failure.  Streams
\* the entity cannot have written (a gzip member, stored or dynamic blocks,
\* length codes) are taken as failures; no state of the model holds one.
Unzip(buf) ==
    IF ~HeaderOk(buf) \/ Len(buf) < 8 THEN [ok |-> FALSE, data |-> <<>>]
    ELSE IF ~(BodyBit(buf, 0) = 1 /\ BodyBit(buf, 1) = 1 /\ BodyBit(buf, 2) = 0)
         THEN [ok |-> FALSE, data |-> <<>>]
    ELSE LET r == Inflate(buf)
             used == 2 + ((r.next + 7) \div 8)
         IN  IF r.ok /\ Len(buf) = used + 4
                  /\ SubSeq(buf, used + 1, used + 4) = Adler32(r.data)
             THEN [ok |-> TRUE, data |-> r.data]
             ELSE [ok |-> FALSE, data |-> <<>>]

(***************************************************************************)
(* The Notification entity: one entity and its row in the store.           *)
(***************************************************************************)
\* code points the plaintext is drawn from: "a" and "e acute" (two bytes)
Alphabet == {97, 233}

Messages == UNION {[1..n -> Alphabet] : n \in 0..MaxLen}

\* timestamps a caller passes
Times == {"t1", "t2"}
ErrorLogs == {"timeout"}

Statuses == {"pending", "sent", "failed"}

NoRow == [status |-> "none"]

Callbacks == {"sentCallback", "failedCallback"}

\* concurrent sign-up requests
MaxCreators == 2
Creators == 1..MaxCreators
Emails == {"a@x.com", "b@x.com"}
Phones == {"+1", "+2"}

\* records the ledger grows to
MaxRecords == 2
InteractionTypes == {"WATCHED", "SEEN", "PAID"}

\* concurrent accessors of one media item, and status updates of it
MaxAccessors == 3
Accessors == 1..MaxAccessors
MaxStatusUpdates == 2
MediaStatuses == {"active", "archived", "deleted"}
Counters == {"viewCount", "downloadCount"}

\* the rows the store is tried with
UserIds == {"user1", "user2"}
StudioIds == {"studio1"}
DeviceIds == {"device1"}
PlaylistIds == {"playlist1"}
NotificationIds == {"notification1"}
Channels == {"email", "SMS", "WhatsApp"}
NotGiven == "undefined"
ChannelsTried == Channels \cup {NotGiven, "push"}

VARIABLES
    row,      \* the persisted Notification, or NoRow before the insert
    saves,    \* persisted writes so far
    plain,    \* history: the plaintext last assigned to message
    hookRuns, \* history: runs of compressMessage since that assignment
    faulted,  \* history: one of those runs caught a compression error
    last,     \* history: the last call, its outcome and returned value
    given,    \* history: the entity the last save() was called on
    pc,       \* where each delivery callback is
    entity,   \* the Notification each callback loaded
    result,   \* what each callback's caller observed
    users,    \* the persisted Users
    request,  \* the User each creator is inserting
    creatorPc,
    creatorResult,
    ledger,   \* the persisted MediaInteractions, oldest first
    asset,    \* the persisted media item
    lastAsset,    \* history: the last status update of it and its outcome
    statusUpdates, \* history: status updates so far
    accessorPc,   \* where each accessor of the media item is
    accessorCopy, \* the media item each accessor loaded
    userTable,    \* the store: ids of the persisted Users
    studioTable,  \* the persisted Studios, by id
    deviceTable,  \* the persisted Devices, by id
    playlistTable,     \* the persisted Playlists, by id
    notificationTable, \* the persisted Notifications, by id
    deleted,      \* history: ids of the Users and Studios deleted so far
    lastStore     \* history: the last call on the store and its outcome

notifVars == <<row, saves, plain, hookRuns, faulted, last, given>>
raceVars == <<pc, entity, result>>
userVars == <<users, request, creatorPc, creatorResult>>
ledgerVars == <<ledger>>
mediaVars == <<asset, lastAsset, statusUpdates, accessorPc, accessorCopy>>
storeVars == <<userTable, studioTable, deviceTable, playlistTable,
               notificationTable, deleted, lastStore>>
vars == <<notifVars, raceVars, userVars, ledgerVars, mediaVars, storeVars>>

\* new Notification() with message = Buffer.from(m): the columns not given
\* take their defaults
NewNotification(m) ==
    [message |-> Utf8Encode(m), status |-> "pending",
     deliveredAt |-> NULL, errorLog |-> NULL,
     channel |-> "WhatsApp", sendAt |-> "t1", subject |-> NULL,
     user |-> NULL, studio |-> NULL]

\* the hook with the buffer read as latin1, one character per byte
CompressMessageLatin1(e, fault) ==
    IF e.message # NoBuffer /\ ~fault
    THEN [e EXCEPT !.message = Deflate(e.message)]
    ELSE e

\* the hook with a catch block that records the error on the entity
CompressMessageLogging(e, fault) ==
    IF e.message # NoBuffer
    THEN IF fault THEN [e EXCEPT !.errorLog = "Compression error"]
         ELSE [e EXCEPT !.message = Deflate(ToStringUtf8(e.message))]
    ELSE e

\* compressMessage, the @BeforeInsert and @BeforeUpdate hook.  A Buffer is
\* truthy whatever its length; fault is deflate calling back with an error,
\* which the catch block logs and drops.
CompressMessage(e, fault) ==
    IF e.message # NoBuffer
    THEN IF fault THEN e
         ELSE [e EXCEPT !.message = Deflate(ToStringUtf8(e.message))]
    ELSE e

\* getMessage with the decompressed bytes read one character per byte
GetMessageLatin1(e) ==
    LET r == Unzip(e.message)
    IN  IF r.ok THEN r.data ELSE <<>>

\* getMessage: the decompressed text, or the initial "" when unzip fails
GetMessage(e) ==
    LET r == Unzip(e.message)
    IN  IF r.ok THEN ToStringUtf8(r.data) ELSE <<>>

\* no call of the entity throws: every outcome is a normal return
Call(op, fault, value) ==
    [op |-> op, fault |-> fault, outcome |-> "ok", value |-> value]

\* save() of a changed entity: the hook runs, then the entity is written
Save(e, op, fault) ==
    /\ row' = CompressMessage(e, fault)
    /\ saves' = saves + 1
    /\ last' = Call(op, fault, <<>>)
    /\ given' = e

NoNotification ==
    /\ row = NoRow
    /\ saves = 0
    /\ plain = <<>>
    /\ hookRuns = 0
    /\ faulted = FALSE
    /\ last = Call("none", FALSE, <<>>)
    /\ given = NoRow

NoCallbacks ==
    /\ pc = [c \in Callbacks |-> "idle"]
    /\ entity = [c \in Callbacks |-> NoRow]
    /\ result = [c \in Callbacks |-> "none"]

NoUser == [email |-> NULL, phoneNumber |-> NULL]

NoCreators ==
    /\ users = {}
    /\ request = [c \in Creators |-> NoUser]
    /\ creatorPc = [c \in Creators |-> "idle"]
    /\ creatorResult = [c \in Creators |-> "none"]

\* a media item as the store holds it after its insert: the columns with a
\* default take it, the nullable timestamps are null
NewMediaItem ==
    [status |-> "active", archivedAt |-> NULL, deletedAt |-> NULL,
     viewCount |-> 0, downloadCount |-> 0]

NoAccessors ==
    /\ asset = NewMediaItem
    /\ lastAsset = [op |-> "none", outcome |-> "ok"]
    /\ statusUpdates = 0
    /\ accessorPc = [a \in Accessors |-> "idle"]
    /\ accessorCopy = [a \in Accessors |-> NewMediaItem]

StoreCall(op, outcome, target, referrers, channel) ==
    [op |-> op, outcome |-> outcome, target |-> target,
     referrers |-> referrers, channel |-> channel]

EmptyStore ==
    /\ userTable = {}
    /\ studioTable = {}
    /\ deviceTable = {}
    /\ playlistTable = {}
    /\ notificationTable = {}
    /\ deleted = {}
    /\ lastStore = StoreCall("none", "ok", NULL, {}, NULL)

Init ==
    /\ NoNotification
    /\ NoCallbacks
    /\ NoCreators
    /\ ledger = <<>>
    /\ NoAccessors
    /\ EmptyStore

\* create: a new entity is saved, which inserts it
Create(m, fault) ==
    /\ row = NoRow
    /\ Save(NewNotification(m), "create", fault)
    /\ plain' = m
    /\ hookRuns' = 1
    /\ faulted' = fault
    /\ UNCHANGED <<raceVars, userVars, ledgerVars, mediaVars, storeVars>>

\* an update that leaves message alone: columns are assigned and the entity
\* is saved.  The entity declares no guard on any column.
Update(e, op, fault) ==
    /\ row # NoRow
    /\ saves < MaxSaves
    /\ Len(row.message) <= MaxStored
    /\ e # row
    /\ Save(e, op, fault)
    /\ hookRuns' = hookRuns + 1
    /\ faulted' = (faulted \/ fault)
    /\ UNCHANGED <<plain, raceVars, userVars, ledgerVars, mediaVars, storeVars>>

UpdateStatus(st, fault) ==
    Update([row EXCEPT !.status = st], "update", fault)

\* the delivery callbacks: the gateway reports the result and the caller
\* records it on the entity
MarkSent(at, fault) ==
    Update([row EXCEPT !.status = "sent", !.deliveredAt = at],
           "markSent", fault)

MarkFailed(log, fault) ==
    Update([row EXCEPT !.status = "failed", !.errorLog = log],
           "markFailed", fault)

\* an update that assigns a new plaintext to message
SetMessage(m, fault) ==
    /\ row # NoRow
    /\ saves < MaxSaves
    /\ Len(row.message) <= MaxStored
    /\ Utf8Encode(m) # row.message
    /\ Save([row EXCEPT !.message = Utf8Encode(m)], "setMessage", fault)
    /\ plain' = m
    /\ hookRuns' = 1
    /\ faulted' = fault
    /\ UNCHANGED <<raceVars, userVars, ledgerVars, mediaVars, storeVars>>

\* a read of the message
ReadMessage ==
    /\ row # NoRow
    /\ last' = Call("getMessage", FALSE, GetMessage(row))
    /\ UNCHANGED <<row, saves, plain, hookRuns, faulted, given>>
    /\ UNCHANGED <<raceVars, userVars, ledgerVars, mediaVars, storeVars>>

Next ==
    \/ \E m \in Messages, fault \in BOOLEAN : Create(m, fault)
    \/ \E st \in Statuses, fault \in BOOLEAN : UpdateStatus(st, fault)
    \/ \E at \in Times, fault \in BOOLEAN : MarkSent(at, fault)
    \/ \E log \in ErrorLogs, fault \in BOOLEAN : MarkFailed(log, fault)
    \/ \E m \in Messages, fault \in BOOLEAN : SetMessage(m, fault)
    \/ ReadMessage

Spec == Init /\ [][Next]_vars

(***************************************************************************)
(* C1 to C4, C6, C7: the write and read paths of one Notification.         *)
(***************************************************************************)
\* C1: a read of a notification that was created with plaintext m and
\* persisted once, the hook having compressed it, returns exactly m.
RoundTrip ==
    (last.op = "getMessage" /\ saves = 1 /\ ~faulted) => last.value = plain

\* a two-byte character and an ASCII one came back from the store
RoundTripWitness ==
    /\ last.op = "getMessage"
    /\ saves = 1
    /\ ~faulted
    /\ Len(plain) = MaxLen
    /\ 233 \in {plain[i] : i \in 1..Len(plain)}
    /\ last.value = plain

\* C2: whatever updates followed the last assignment of a plaintext, the
\* stored bytes are that plaintext compressed once and a read returns it.
CompressedOnce ==
    (row # NoRow /\ ~faulted) =>
        (row.message = Deflate(plain) /\ GetMessage(row) = plain)

\* C3: a notification starts pending and its status only ever changes from
\* pending to sent or from pending to failed.
OneWayStatus ==
    [][/\ row = NoRow => row'.status \in {"none", "pending"}
       /\ (row # NoRow /\ row'.status # row.status) =>
              (row.status = "pending" /\ row'.status \in {"sent", "failed"})
      ]_vars

\* C4: markFailed right after markSent (and markSent right after
\* markFailed) fails with InvalidStateError and leaves status, deliveredAt
\* and errorLog as the first call set them.
SecondMarkRejected ==
    [][(\/ last.op = "markSent" /\ last'.op = "markFailed"
        \/ last.op = "markFailed" /\ last'.op = "markSent") =>
           /\ last'.outcome = "InvalidStateError"
           /\ row'.status = row.status
           /\ row'.deliveredAt = row.deliveredAt
           /\ row'.errorLog = row.errorLog
      ]_vars

\* C6: a write whose compression fails is aborted with CompressionError and
\* leaves the store as it was.
AbortOnCompressionFault ==
    [][last'.fault => (last'.outcome = "CompressionError" /\ row' = row)]_vars

\* C7: a read of stored bytes that are no valid compressed stream fails
\* with DecompressionError.
ReadFailsVisibly ==
    (last.op = "getMessage" /\ ~Unzip(row.message).ok) =>
        last.outcome = "DecompressionError"

\* C15: deliveredAt is set only on a sent notification and errorLog only on
\* a failed one or one with a recorded compression fault; a freshly
\* created notification is pending with both null.
ResultColumnsFollowStatus ==
    row # NoRow =>
        /\ row.deliveredAt # NULL => row.status = "sent"
        /\ row.errorLog # NULL => (row.status = "failed" \/ faulted)
        /\ last.op = "create" =>
               /\ row.status = "pending"
               /\ row.deliveredAt = NULL
               /\ row.errorLog = NULL

\* C18: after an update that assigned a new plaintext to message and
\* persisted once, a read returns exactly that plaintext.
UpdateRoundTrip ==
    (last.op = "getMessage" /\ saves > 1 /\ hookRuns = 1 /\ ~faulted) =>
        last.value = plain

\* a message of one more character, a two-byte one among them, replaced
\* the created one and came back from the store
UpdateRoundTripWitness ==
    /\ last.op = "getMessage"
    /\ saves = 2
    /\ hookRuns = 1
    /\ ~faulted
    /\ Len(plain) = MaxLen
    /\ 233 \in {plain[i] : i \in 1..Len(plain)}
    /\ last.value = plain

OtherColumns ==
    {"status", "deliveredAt", "errorLog", "channel", "sendAt", "subject",
     "user", "studio"}

\* C19: a write stores every column but message as the caller gave it,
\* whether the hook compressed or caught an error; a read changes no
\* column, and a second read right after it returns the same string.
PayloadOnly ==
    /\ [](row # NoRow => \A column \in OtherColumns : row[column] = given[column])
    /\ [][last'.op = "getMessage" =>
             /\ row' = row
             /\ last.op = "getMessage" => last'.value = last.value
         ]_vars

\* the hook caught a compression error on the save that marked the
\* notification sent: the columns are as assigned and message is untouched
PayloadOnlyWitness ==
    /\ last.op = "markSent"
    /\ last.fault
    /\ row.status = "sent"
    /\ row.deliveredAt # NULL
    /\ row = given

(***************************************************************************)
(* Two delivery callbacks on one pending Notification.  Each loads the     *)
(* entity, assigns the result and saves; save() writes the entity it       *)
(* holds, and nothing in the entity compares the stored status first.      *)
(***************************************************************************)
InitRace ==
    /\ \E m \in Messages :
          /\ row = CompressMessage(NewNotification(m), FALSE)
          /\ plain = m
    /\ saves = 1
    /\ hookRuns = 1
    /\ faulted = FALSE
    /\ last = Call("create", FALSE, <<>>)
    /\ given = NewNotification(plain)
    /\ NoCallbacks
    /\ NoCreators
    /\ ledger = <<>>
    /\ NoAccessors
    /\ EmptyStore

Load(c) ==
    /\ pc[c] = "idle"
    /\ entity' = [entity EXCEPT ![c] = row]
    /\ pc' = [pc EXCEPT ![c] = "loaded"]
    /\ UNCHANGED <<result, notifVars, userVars, ledgerVars, mediaVars, storeVars>>

\* the callback saves the entity it loaded, with its result assigned
Record(c, e, op, fault) ==
    /\ pc[c] = "loaded"
    /\ Save(e, op, fault)
    /\ hookRuns' = hookRuns + 1
    /\ faulted' = (faulted \/ fault)
    /\ pc' = [pc EXCEPT ![c] = "done"]
    /\ result' = [result EXCEPT ![c] = last'.outcome]
    /\ UNCHANGED <<plain, entity, userVars, ledgerVars, mediaVars, storeVars>>

RecordSent(at, fault) ==
    Record("sentCallback",
           [entity["sentCallback"] EXCEPT !.status = "sent", !.deliveredAt = at],
           "markSent", fault)

RecordFailed(log, fault) ==
    Record("failedCallback",
           [entity["failedCallback"] EXCEPT !.status = "failed", !.errorLog = log],
           "markFailed", fault)

NextRace ==
    \/ \E c \in Callbacks : Load(c)
    \/ \E at \in Times, fault \in BOOLEAN : RecordSent(at, fault)
    \/ \E log \in ErrorLogs, fault \in BOOLEAN : RecordFailed(log, fault)

SpecRace == InitRace /\ [][NextRace]_vars

\* C5: when both callbacks have returned, exactly one succeeded, the other
\* observed InvalidStateError, and the row holds the winner's status and
\* result column and nothing of the loser's.
ExactlyOneWinner ==
    (\A c \in Callbacks : pc[c] = "done") =>
        \E w \in Callbacks :
            /\ result[w] = "ok"
            /\ \A l \in Callbacks \ {w} : result[l] = "InvalidStateError"
            /\ w = "sentCallback" =>
                   /\ row.status = "sent"
                   /\ row.deliveredAt # NULL
                   /\ row.errorLog = NULL
            /\ w = "failedCallback" =>
                   /\ row.status = "failed"
                   /\ row.errorLog # NULL
                   /\ row.deliveredAt = NULL

(***************************************************************************)
(* The User entity: email and phoneNumber are unique columns, which the    *)
(* store enforces on every insert.                                         *)
(***************************************************************************)
\* a constraint on the email alone
EmailTaken(u) == \E v \in users : v.email = u.email

\* the unique constraints: a stored User has this email, or this phone
\* number when there is one (null never equals null)
UniqueViolation(u) ==
    \E v \in users :
        \/ v.email = u.email
        \/ u.phoneNumber # NULL /\ v.phoneNumber = u.phoneNumber

\* a creator builds a new User; the identifier is a fresh uuid, here the
\* creator's own number
Prepare(c, email, phone) ==
    /\ creatorPc[c] = "idle"
    /\ request' = [request EXCEPT ![c] = [email |-> email, phoneNumber |-> phone]]
    /\ creatorPc' = [creatorPc EXCEPT ![c] = "ready"]
    /\ UNCHANGED <<users, creatorResult, notifVars, raceVars, ledgerVars, mediaVars, storeVars>>

\* save(): one insert, which the store rejects when a unique column clashes
Insert(c) ==
    /\ creatorPc[c] = "ready"
    /\ IF UniqueViolation(request[c])
       THEN /\ creatorResult' = [creatorResult EXCEPT ![c] = "ConflictError"]
            /\ UNCHANGED users
       ELSE /\ creatorResult' = [creatorResult EXCEPT ![c] = "ok"]
            /\ users' = users \cup {[id |-> c, email |-> request[c].email,
                                     phoneNumber |-> request[c].phoneNumber]}
    /\ creatorPc' = [creatorPc EXCEPT ![c] = "done"]
    /\ UNCHANGED <<request, notifVars, raceVars, ledgerVars, mediaVars, storeVars>>

NextUsers ==
    \/ \E c \in Creators, email \in Emails, phone \in Phones \cup {NULL} :
          Prepare(c, email, phone)
    \/ \E c \in Creators : Insert(c)

SpecUsers == Init /\ [][NextUsers]_vars

\* two requests that the unique columns do not allow together
Clash(u, v) ==
    \/ u.email = v.email
    \/ u.phoneNumber # NULL /\ u.phoneNumber = v.phoneNumber

UsersUnique ==
    \A u, v \in users :
        u.id # v.id =>
            /\ u.email # v.email
            /\ u.phoneNumber # NULL => u.phoneNumber # v.phoneNumber

\* of two finished creators whose requests clash, never both succeeded, and
\* when no third User is in the store one succeeded and one got the conflict
OneOfEachPair ==
    \A c, d \in Creators :
        (c # d /\ creatorPc[c] = "done" /\ creatorPc[d] = "done"
         /\ Clash(request[c], request[d])) =>
            /\ ~(creatorResult[c] = "ok" /\ creatorResult[d] = "ok")
            /\ (\A u \in users : u.id \in {c, d}) =>
                   {creatorResult[c], creatorResult[d]} = {"ok", "ConflictError"}

\* C8: no two stored Users share an email or a non-null phoneNumber; of two
\* clashing creations, in any interleaving, one succeeds and one gets
\* ConflictError; and the rejected insert leaves the store as it was.
UniqueUsers ==
    /\ [](UsersUnique /\ OneOfEachPair)
    /\ [][\A c \in Creators :
             (creatorResult[c] = "none" /\ creatorResult'[c] = "ConflictError")
                 => users' = users]_vars

\* both creators asked for the same email with different phones; one is
\* stored and the other was rejected
UniqueUsersWitness ==
    \E c, d \in Creators :
        /\ c # d
        /\ request[c].email = request[d].email
        /\ request[c].phoneNumber # request[d].phoneNumber
        /\ creatorResult[c] = "ok"
        /\ creatorResult[d] = "ConflictError"
        /\ \E u \in users : u.id = c

(***************************************************************************)
(* The MediaInteraction ledger: four nullable references, no check.        *)
(***************************************************************************)
Targets == {"music", "photo", "video", "playlist"}

\* a MediaInteraction is built and saved: the entity validates nothing
RecordInteraction(user, music, photo, video, playlist, type) ==
    /\ Len(ledger) < MaxRecords
    /\ ledger' = Append(ledger,
                        [user |-> user, music |-> music, photo |-> photo,
                         video |-> video, playlist |-> playlist,
                         interactionType |-> type])
    /\ UNCHANGED <<notifVars, raceVars, userVars, mediaVars, storeVars>>

\* a stored MediaInteraction is loaded, a column is assigned and save() is
\* called: the class inherits save() and declares no column read-only
AmendInteraction(i, type) ==
    /\ i \in 1..Len(ledger)
    /\ ledger[i].interactionType # type
    /\ ledger' = [ledger EXCEPT ![i].interactionType = type]
    /\ UNCHANGED <<notifVars, raceVars, userVars, mediaVars, storeVars>>

\* remove() of a stored MediaInteraction, inherited as save() is
RemoveInteraction(i) ==
    /\ i \in 1..Len(ledger)
    /\ ledger' = SubSeq(ledger, 1, i - 1) \o SubSeq(ledger, i + 1, Len(ledger))
    /\ UNCHANGED <<notifVars, raceVars, userVars, mediaVars, storeVars>>

NextLedger ==
    \/ \E music \in {NULL, "music1"}, photo \in {NULL, "photo1"},
          video \in {NULL, "video1"}, playlist \in {NULL, "playlist1"},
          type \in InteractionTypes :
           RecordInteraction("user1", music, photo, video, playlist, type)
    \/ \E i \in 1..MaxRecords, type \in InteractionTypes :
          AmendInteraction(i, type)
    \/ \E i \in 1..MaxRecords : RemoveInteraction(i)

SpecLedger == Init /\ [][NextLedger]_vars

\* C10: every persisted MediaInteraction references exactly one of music,
\* photo, video and playlist.
ExactlyOneTarget ==
    \A i \in 1..Len(ledger) :
        Cardinality({t \in Targets : ledger[i][t] # NULL}) = 1

\* C17: the ledger only grows: every step that changes it appends exactly
\* one record, also when an identical one is already there, and leaves the
\* records it held in place and unchanged.
AppendOnly ==
    [][/\ Len(ledger') = Len(ledger) + 1
       /\ SubSeq(ledger', 1, Len(ledger)) = ledger]_ledger

(***************************************************************************)
(* One media item (BaseMediaItem).  The class declares columns only: a     *)
(* caller changes the item by loading it, assigning columns and calling    *)
(* save(), which writes the values the caller holds.                       *)
(***************************************************************************)
LoadItem(a) ==
    /\ accessorPc[a] = "idle"
    /\ accessorCopy' = [accessorCopy EXCEPT ![a] = asset]
    /\ accessorPc' = [accessorPc EXCEPT ![a] = "loaded"]
    /\ UNCHANGED <<asset, lastAsset, statusUpdates>>
    /\ UNCHANGED <<notifVars, raceVars, userVars, ledgerVars, storeVars>>

\* the accessor counts its view or download on the copy it loaded and
\* saves that copy
IncrementCount(a, counter) ==
    /\ accessorPc[a] = "loaded"
    /\ asset' = [accessorCopy[a] EXCEPT ![counter] = @ + 1]
    /\ accessorPc' = [accessorPc EXCEPT ![a] = counter]
    /\ UNCHANGED <<accessorCopy, lastAsset, statusUpdates>>
    /\ UNCHANGED <<notifVars, raceVars, userVars, ledgerVars, storeVars>>

\* a status update: status is a varchar column and the two timestamps are
\* nullable columns, and nothing relates the three
UpdateItem(st, archivedAt, deletedAt) ==
    /\ statusUpdates < MaxStatusUpdates
    /\ asset' = [asset EXCEPT !.status = st, !.archivedAt = archivedAt,
                              !.deletedAt = deletedAt]
    /\ asset' # asset
    /\ lastAsset' = [op |-> "update", outcome |-> "ok"]
    /\ statusUpdates' = statusUpdates + 1
    /\ UNCHANGED <<accessorPc, accessorCopy>>
    /\ UNCHANGED <<notifVars, raceVars, userVars, ledgerVars, storeVars>>

NextMedia ==
    \/ \E a \in Accessors : LoadItem(a)
    \/ \E a \in Accessors, counter \in Counters : IncrementCount(a, counter)
    \/ \E st \in MediaStatuses, archivedAt, deletedAt \in {NULL, "t1"} :
          UpdateItem(st, archivedAt, deletedAt)

SpecMedia == Init /\ [][NextMedia]_vars

Counted(counter) == Cardinality({a \in Accessors : accessorPc[a] = counter})

\* C11: when every accessor has returned, viewCount and downloadCount are
\* the number of increments made of each, and no step lowers a counter.
NoLostUpdate ==
    /\ []((\A a \in Accessors : accessorPc[a] \in Counters) =>
             \A counter \in Counters : asset[counter] = Counted(counter))
    /\ [][\A counter \in Counters : asset'[counter] >= asset[counter]]_vars

\* C14: the status only goes from active to archived, which sets
\* archivedAt, and from active or archived to deleted, which sets deletedAt;
\* a status update of a deleted item fails with InvalidStateError and
\* changes nothing; deletedAt is set only on a deleted item and archivedAt
\* only on one that was archived.
MediaLifecycle ==
    /\ [](asset.deletedAt # NULL => asset.status = "deleted")
    /\ [](asset.archivedAt # NULL => asset.status \in {"archived", "deleted"})
    /\ [][/\ (asset'.status # asset.status) =>
                (\/ /\ asset.status = "active"
                    /\ asset'.status = "archived"
                    /\ asset'.archivedAt # NULL
                 \/ /\ asset.status \in {"active", "archived"}
                    /\ asset'.status = "deleted"
                    /\ asset'.deletedAt # NULL)
          /\ (asset.status = "deleted" /\ statusUpdates' # statusUpdates) =>
                (/\ lastAsset'.outcome = "InvalidStateError"
                 /\ asset'.status = asset.status
                 /\ asset'.archivedAt = asset.archivedAt
                 /\ asset'.deletedAt = asset.deletedAt)
          ]_vars

(***************************************************************************)
(* The store of Users, Studios, Devices, Playlists and Notifications and   *)
(* the foreign keys the relations declare.  A many-to-one relation with    *)
(* no onDelete option gets a foreign key with no delete action, so the     *)
(* store refuses to delete a row that is still referenced; the two         *)
(* relations of Notification are declared onDelete: "SET NULL".            *)
(***************************************************************************)
Ids(table) == {r.id : r \in table}

\* an enum the store does not check
AnyChannelAccepted(ch) == TRUE

\* the enum column: the store takes one of the declared values, and the
\* default when the entity gives none
ChannelAccepted(ch) == ch \in Channels \cup {NotGiven}

StoredChannel(ch) == IF ch = NotGiven THEN "WhatsApp" ELSE ch

\* the row of a new Notification: the insert hook has compressed the message
NotificationRow(id, user, studio, ch) ==
    [id |-> id] @@
    CompressMessage([NewNotification(<<97>>) EXCEPT !.user = user,
                        !.studio = studio, !.channel = StoredChannel(ch)],
                    FALSE)

\* a foreign key declared ON DELETE CASCADE
OnDeleteCascade(table, relation, id) == {r \in table : r[relation] # id}

\* ON DELETE SET NULL: the rows that reference the deleted parent stay, with
\* the reference nulled
OnDeleteSetNull(table, relation, id) ==
    {IF r[relation] = id THEN [r EXCEPT ![relation] = NULL] ELSE r : r \in table}

\* rows that reference a User through a foreign key with no delete action
UserReferenced(u) ==
    \/ \E d \in deviceTable : d.user = u
    \/ \E st \in studioTable : st.user = u
    \/ \E i \in 1..Len(ledger) : ledger[i].user = u

StudioReferenced(st) == \E p \in playlistTable : p.studio = st

Referrers(relation, id) == {n.id : n \in {r \in notificationTable : r[relation] = id}}

\* ids are fresh uuids: one is never given twice
InsertUser(u) ==
    /\ u \notin userTable \cup deleted
    /\ userTable' = userTable \cup {u}
    /\ lastStore' = StoreCall("insertUser", "ok", u, {}, NULL)
    /\ UNCHANGED <<studioTable, deviceTable, playlistTable, notificationTable,
                   deleted>>
    /\ UNCHANGED <<notifVars, raceVars, userVars, ledgerVars, mediaVars>>

InsertStudio(st, user) ==
    /\ st \notin Ids(studioTable) \cup deleted
    /\ user \in userTable \cup {NULL}
    /\ studioTable' = studioTable \cup {[id |-> st, user |-> user]}
    /\ lastStore' = StoreCall("insertStudio", "ok", st, {}, NULL)
    /\ UNCHANGED <<userTable, deviceTable, playlistTable, notificationTable,
                   deleted>>
    /\ UNCHANGED <<notifVars, raceVars, userVars, ledgerVars, mediaVars>>

InsertDevice(d, user) ==
    /\ d \notin Ids(deviceTable)
    /\ user \in userTable \cup {NULL}
    /\ deviceTable' = deviceTable \cup {[id |-> d, user |-> user]}
    /\ lastStore' = StoreCall("insertDevice", "ok", d, {}, NULL)
    /\ UNCHANGED <<userTable, studioTable, playlistTable, notificationTable,
                   deleted>>
    /\ UNCHANGED <<notifVars, raceVars, userVars, ledgerVars, mediaVars>>

InsertPlaylist(p, studio) ==
    /\ p \notin Ids(playlistTable)
    /\ studio \in Ids(studioTable) \cup {NULL}
    /\ playlistTable' = playlistTable \cup {[id |-> p, studio |-> studio]}
    /\ lastStore' = StoreCall("insertPlaylist", "ok", p, {}, NULL)
    /\ UNCHANGED <<userTable, studioTable, deviceTable, notificationTable,
                   deleted>>
    /\ UNCHANGED <<notifVars, raceVars, userVars, ledgerVars, mediaVars>>

\* create of a Notification: the store checks the enum on the insert
InsertNotification(n, user, studio, ch) ==
    /\ n \notin Ids(notificationTable)
    /\ user \in userTable \cup {NULL}
    /\ studio \in Ids(studioTable) \cup {NULL}
    /\ IF ChannelAccepted(ch)
       THEN /\ notificationTable' =
                  notificationTable \cup {NotificationRow(n, user, studio, ch)}
            /\ lastStore' = StoreCall("insertNotification", "ok", n, {}, ch)
       ELSE /\ UNCHANGED notificationTable
            /\ lastStore' =
                  StoreCall("insertNotification", "ValidationError", n, {}, ch)
    /\ UNCHANGED <<userTable, studioTable, deviceTable, playlistTable, deleted>>
    /\ UNCHANGED <<notifVars, raceVars, userVars, ledgerVars, mediaVars>>

DeleteUser(u) ==
    /\ u \in userTable
    /\ IF UserReferenced(u)
       THEN /\ lastStore' = StoreCall("deleteUser", "ForeignKeyError", u,
                                      Referrers("user", u), NULL)
            /\ UNCHANGED <<userTable, notificationTable, deleted>>
       ELSE /\ userTable' = userTable \ {u}
            /\ notificationTable' = OnDeleteSetNull(notificationTable, "user", u)
            /\ deleted' = deleted \cup {u}
            /\ lastStore' = StoreCall("deleteUser", "ok", u,
                                      Referrers("user", u), NULL)
    /\ UNCHANGED <<studioTable, deviceTable, playlistTable>>
    /\ UNCHANGED <<notifVars, raceVars, userVars, ledgerVars, mediaVars>>

DeleteStudio(st) ==
    /\ st \in Ids(studioTable)
    /\ IF StudioReferenced(st)
       THEN /\ lastStore' = StoreCall("deleteStudio", "ForeignKeyError", st,
                                      Referrers("studio", st), NULL)
            /\ UNCHANGED <<studioTable, notificationTable, deleted>>
       ELSE /\ studioTable' = {r \in studioTable : r.id # st}
            /\ notificationTable' =
                  OnDeleteSetNull(notificationTable, "studio", st)
            /\ deleted' = deleted \cup {st}
            /\ lastStore' = StoreCall("deleteStudio", "ok", st,
                                      Referrers("studio", st), NULL)
    /\ UNCHANGED <<userTable, deviceTable, playlistTable>>
    /\ UNCHANGED <<notifVars, raceVars, userVars, ledgerVars, mediaVars>>

NextStore ==
    \/ \E u \in UserIds : InsertUser(u)
    \/ \E st \in StudioIds, user \in UserIds \cup {NULL} : InsertStudio(st, user)
    \/ \E d \in DeviceIds, user \in UserIds \cup {NULL} : InsertDevice(d, user)
    \/ \E p \in PlaylistIds, studio \in StudioIds \cup {NULL} :
          InsertPlaylist(p, studio)
    \/ \E n \in NotificationIds, user \in UserIds \cup {NULL},
          studio \in StudioIds \cup {NULL}, ch \in ChannelsTried :
          InsertNotification(n, user, studio, ch)
    \/ \E u \in UserIds : DeleteUser(u)
    \/ \E st \in StudioIds : DeleteStudio(st)

SpecStore == Init /\ [][NextStore]_vars

Deletes == {"deleteUser", "deleteStudio"}

\* C12: a delete of a User or Studio deletes no Notification: each one that
\* referenced the deleted parent is still there with that reference null
\* and every other column as it was, and no other Notification changes.
NotificationsSurvive ==
    [][lastStore'.op \in Deletes =>
          /\ Ids(notificationTable') = Ids(notificationTable)
          /\ \A n \in notificationTable :
                LET p == lastStore'.target
                    gone == p \in deleted'
                IN  [n EXCEPT !.user = IF gone /\ @ = p THEN NULL ELSE @,
                              !.studio = IF gone /\ @ = p THEN NULL ELSE @]
                        \in notificationTable'
      ]_vars

\* a User that a Notification of a Studio referenced was deleted
NotificationsSurviveWitness ==
    /\ lastStore.op = "deleteUser"
    /\ lastStore.outcome = "ok"
    /\ lastStore.referrers # {}
    /\ \A n \in notificationTable :
          n.id \in lastStore.referrers =>
              (n.user = NULL /\ n.studio # NULL /\ n.channel = "email")

\* C13: a delete of a User or Studio succeeds and takes the owned children
\* with it: afterwards the parent is gone, no Device or Studio references
\* the User, no Playlist references the Studio, and the Notifications that
\* referenced it are still there.
CascadesToOwned ==
    lastStore.op \in Deletes =>
        LET p == lastStore.target
        IN  /\ lastStore.outcome = "ok"
            /\ p \notin userTable \cup Ids(studioTable)
            /\ \A d \in deviceTable : d.user # p
            /\ \A st \in studioTable : st.user # p
            /\ \A pl \in playlistTable : pl.studio # p
            /\ lastStore.referrers \subseteq Ids(notificationTable)

\* C16: every persisted Notification has one of the three channels; a
\* create with another channel is rejected with ValidationError and
\* persists nothing; a create with no channel stores WhatsApp.
ChannelValidated ==
    /\ [](\A n \in notificationTable : n.channel \in Channels)
    /\ [][lastStore'.op = "insertNotification" /\ lastStore' # lastStore =>
            LET ch == lastStore'.channel
                id == lastStore'.target
            IN  /\ ch \notin Channels \cup {NotGiven} =>
                      /\ lastStore'.outcome = "ValidationError"
                      /\ notificationTable' = notificationTable
                /\ ch \in Channels \cup {NotGiven} =>
                      \E n \in notificationTable' \ notificationTable :
                          /\ n.id = id
                          /\ n.channel = IF ch = NotGiven THEN "WhatsApp" ELSE ch
          ]_vars

\* a create with a channel the column does not list was refused
ChannelValidatedWitness ==
    /\ lastStore.op = "insertNotification"
    /\ lastStore.channel = "push"
    /\ lastStore.outcome = "ValidationError"
    /\ notificationTable = {}

====
